---- MODULE Spec2Model ----
(***************************************************************************)
(* Register-addressed access layer of thermia-genesis-modbus               *)
(* (common_thermia.c): the process-wide session (g_ctx, g_model), the      *)
(* register catalog lookup, and the four accessor operations, together     *)
(* with the transport library and the controller they talk to.             *)
(*                                                                         *)
(* One action models one whole call of a public function.  `last` records  *)
(* what the most recent call was given, what it returned, the diagnostic   *)
(* it printed, the wire requests it issued and whether it stored through   *)
(* the caller's output pointer.                                            *)
(*                                                                         *)
(* The command-line harness (main, built with -DTEST) is a caller of that  *)
(* library: its position, arguments, output and exit status are state of   *)
(* their own, at rest while the library is driven by any caller.           *)
(***************************************************************************)
EXTENDS Integers, Sequences, FiniteSets, TLC

VARIABLES
    g_ctx,      \* static modbus_t *g_ctx: NULL or the identity of a transport
    g_model,    \* static model_t g_model
    mb,         \* the transport library's objects, by identity
    coils,      \* controller: coil table, by address
    holding,    \* controller: holding-register table, by address
    last,       \* the most recent call and its outcome
    argv,       \* harness: argument vector, argv[k + 1] being C's argv[k]
    pc,         \* harness: position in main
    main_model, \* harness: model_t model
    argi,       \* harness: loop index of the read loop
    stdout,     \* harness: lines printed by main
    stderr,     \* harness: main's own diagnostic, "" when none
    status,     \* harness: exit status
    CURRENT_IP, \* daemon: the address being published, "" when none
    AVAHI_PID,  \* daemon: pid of the publisher, 0 standing for ""
    last_scan,  \* daemon: local of main
    last_probe, \* daemon: local of main
    now,        \* daemon: local of main
    last_bg,    \* daemon: $!, the pid of the last background command
    dpc,        \* daemon: position in the script
    start_from, \* daemon: the call site start_avahi_publish returns to
    alive,      \* the publisher processes that are running
    spawned,    \* the number of publisher processes started so far
    clock,      \* the time of day, in seconds (date +%s)
    device_ip   \* the address the device answers at, "" when it is away

libvars == <<g_ctx, g_model, mb, coils, holding, last>>
mainvars == <<argv, pc, main_model, argi, stdout, stderr, status>>
daemonvars == <<CURRENT_IP, AVAHI_PID, last_scan, last_probe, now, last_bg,
                dpc, start_from, alive, spawned, clock, device_ip>>

vars == <<g_ctx, g_model, mb, coils, holding, last,
          argv, pc, main_model, argi, stdout, stderr, status,
          CURRENT_IP, AVAHI_PID, last_scan, last_probe, now, last_bg,
          dpc, start_from, alive, spawned, clock, device_ip>>

----------------------------------------------------------------------------
(* Enumerations and program constants *)

NULL == 0

MODEL_MEGA == 1
MODEL_INVERTER == 2

REG_COIL_STATUS == 1
REG_INPUT_STATUS == 2
REG_INPUT == 4
REG_HOLDING == 8

\* modbus_set_slave(g_ctx, 1)
SLAVE_ID == 1

\* <stdlib.h>, as returned by main
EXIT_SUCCESS == 0
EXIT_FAILURE == 1

\* thermia_modbus_open(address, 502, model) in main
MAIN_PORT == 502

----------------------------------------------------------------------------
(* Bounds and input sets *)

\* Number of transport objects the library can hand out in one run; once
\* they are used up modbus_new_tcp only fails.
MaxTransports == 2

Models == {MODEL_MEGA, MODEL_INVERTER}
Hosts == {"192.168.0.106", "thermia.local"}
Ports == {502}

\* 16-bit words the controller holds or answers with: both sides of the
\* sign boundary, and the two values of the sign-extension example.
RawValues == {5, 32767, 32768, 65526}

\* C ints handed to write_register_int: in range, negative, and beyond 16 bits.
WriteValues == {5, -10, -32768, 65541}

BitValues == {0, 1}

----------------------------------------------------------------------------
(* C operators *)

RECURSIVE BitAnd(_, _)
BitAnd(a, b) ==
    IF a = 0 \/ b = 0 THEN 0
    ELSE (a % 2) * (b % 2) + 2 * BitAnd(a \div 2, b \div 2)

RECURSIVE BitOr(_, _)
BitOr(a, b) ==
    IF a = 0 THEN b
    ELSE IF b = 0 THEN a
    ELSE (IF a % 2 = 1 \/ b % 2 = 1 THEN 1 ELSE 0) + 2 * BitOr(a \div 2, b \div 2)

\* The value masked with 0x7FFF instead of converted.
ToUint16_low15(value) == value % 32768

\* (uint16_t)value: reduction modulo 2^16
ToUint16(value) == value % 65536

\* The assignment without the cast: *value = reg_value
ToInt16_uncast(reg_value) == reg_value

\* (int16_t)reg_value: the 16 bits read as two's complement, bit 15 weighing
\* -2^15 and bits 0..14 their usual weights.
ToInt16(reg_value) ==
    (reg_value % 32768) - 32768 * ((reg_value \div 32768) % 2)

----------------------------------------------------------------------------
(* The register catalog *)

\* Rows in the shape csv2header.js emits (name, type, address, defacto,
\* scale, model, ...).  They cover every kind, registers of one model, of
\* both and of none, and one name that occurs twice with different kinds.
g_registers ==
    << [name |-> "enableHeatpumpResetAllAlarms", type |-> REG_COIL_STATUS,
        address |-> 50, scale |-> 1, model |-> MODEL_MEGA],
       [name |-> "alarmHeatpumpBrineInSensor", type |-> REG_INPUT_STATUS,
        address |-> 50, scale |-> 1, model |-> MODEL_INVERTER],
       [name |-> "valueHeatpumpBrineInTemperature", type |-> REG_HOLDING,
        address |-> 100, scale |-> 10, model |-> MODEL_MEGA + MODEL_INVERTER],
       [name |-> "valueHeatpumpSoftwareVersionMajor", type |-> REG_INPUT,
        address |-> 100, scale |-> 1, model |-> MODEL_MEGA],
       [name |-> "valueTwice", type |-> REG_INPUT,
        address |-> 101, scale |-> 100, model |-> MODEL_INVERTER],
       [name |-> "valueTwice", type |-> REG_HOLDING,
        address |-> 101, scale |-> 100, model |-> MODEL_MEGA],
       [name |-> "alarmNoModel", type |-> REG_INPUT_STATUS,
        address |-> 51, scale |-> 1, model |-> 0] >>

g_num_registers == Len(g_registers)

\* Names a caller may pass: every catalog name and one that is in no row.
Names == {g_registers[i].name : i \in 1..g_num_registers} \cup {"noSuchRegister"}

CoilAddrs == {g_registers[i].address :
                 i \in {j \in 1..g_num_registers : g_registers[j].type = REG_COIL_STATUS}}
HoldingAddrs == {g_registers[i].address :
                    i \in {j \in 1..g_num_registers : g_registers[j].type = REG_HOLDING}}

\* The loop with the kind compared for equality instead of intersected.
RECURSIVE find_from_same_kind(_, _, _)
find_from_same_kind(i, name, type) ==
    IF i > g_num_registers THEN NULL
    ELSE IF g_registers[i].name = name /\ g_registers[i].type = type THEN i
    ELSE find_from_same_kind(i + 1, name, type)

\* The loop of find_register from index i on; the result is the index of the
\* row (a pointer into g_registers), NULL when the loop runs off the end.
RECURSIVE find_from(_, _, _)
find_from(i, name, type) ==
    IF i > g_num_registers THEN NULL
    ELSE IF g_registers[i].name = name /\ BitAnd(g_registers[i].type, type) # 0 THEN i
    ELSE find_from(i + 1, name, type)

find_register(name, type) == find_from(1, name, type)

\* The test against "some model" instead of the session's model.
is_register_supported_by_any(reg) == g_registers[reg].model # 0

\* The test against the initial value of g_model instead of g_model.
is_register_supported_by_default(reg) == BitAnd(g_registers[reg].model, MODEL_MEGA) # 0

is_register_supported(reg) == BitAnd(g_registers[reg].model, g_model) # 0

----------------------------------------------------------------------------
(* The transport library (libmodbus) and the controller behind it *)

NoTransport ==
    [state |-> "none", slave |-> 0, closes |-> 0, frees |-> 0]

\* What modbus_new_tcp can return: the next object never handed out before,
\* or NULL (allocation failure; the only outcome once all are used up).
modbus_new_tcp ==
    {NULL} \cup {h \in 1..MaxTransports :
                    /\ mb[h].state = "none"
                    /\ \A k \in 1..(h - 1) : mb[k].state # "none"}

\* modbus_set_slave followed by a modbus_connect that succeeds
modbus_connected(ctx) ==
    [mb EXCEPT ![ctx] = [state |-> "connected", slave |-> SLAVE_ID,
                         closes |-> 0, frees |-> 0]]

\* modbus_free on an object that never connected
modbus_free(ctx) ==
    [mb EXCEPT ![ctx] = [NoTransport EXCEPT !.state = "freed", !.frees = mb[ctx].frees + 1]]

\* modbus_close followed by modbus_free
modbus_close_free(ctx) ==
    [mb EXCEPT ![ctx] = [NoTransport EXCEPT !.state = "freed",
                                            !.closes = mb[ctx].closes + 1,
                                            !.frees = mb[ctx].frees + 1]]

\* One request on the wire: the protocol function, the transport it went
\* out on, the address, the item count, the value carried (sent by a write,
\* answered to a read) and the library's return code.
Request(fn, addr, val, rc) ==
    [fn |-> fn, ctx |-> g_ctx, addr |-> addr, nb |-> 1, val |-> val, rc |-> rc]

\* What the controller can answer to a read of one item.
Answers(fn, addr) ==
    CASE fn = "read_bits" -> {coils[addr]}
      [] fn = "read_input_bits" -> BitValues
      [] fn = "read_registers" -> {holding[addr]}
      [] fn = "read_input_registers" -> RawValues

----------------------------------------------------------------------------
(* The record of a call *)

Call(op, name, port, arg, ret, err, wire, written, out) ==
    [op |-> op, name |-> name, port |-> port, arg |-> arg, ret |-> ret,
     err |-> err, wire |-> wire, written |-> written, out |-> out]

AccessorOps == {"read_bit", "read_int", "write_bit", "write_int"}

----------------------------------------------------------------------------
(* Session: thermia_modbus_open, thermia_modbus_close *)

\* The same test left out: every open goes on to create a transport.
open_rejected_never == FALSE

\* if (g_ctx != NULL) { "initialised already"; return false; }
open_rejected == g_ctx # NULL

\* The connect-failure branch without its g_ctx = NULL: the freed pointer stays.
open_ctx_dangling(ctx) == ctx

\* g_ctx as the connect-failure branch leaves it: modbus_free(g_ctx); g_ctx = NULL
open_ctx_after_connect_failure(ctx) == NULL

\* thermia_modbus_open with g_model = model placed before the test of g_ctx.
thermia_modbus_open_model_first(address, port, model) ==
    /\ g_model' = model
    /\ UNCHANGED <<coils, holding>>
    /\ IF open_rejected
       THEN /\ last' = Call("open", address, port, model, FALSE, "AlreadyOpen",
                            <<>>, FALSE, 0)
            /\ UNCHANGED <<g_ctx, mb>>
       ELSE \E ctx \in modbus_new_tcp :
              IF ctx = NULL
              THEN /\ g_ctx' = NULL
                   /\ last' = Call("open", address, port, model, FALSE,
                                   "InitialisationFailed", <<>>, FALSE, 0)
                   /\ UNCHANGED mb
              ELSE \/ /\ mb' = modbus_free(ctx)
                      /\ g_ctx' = open_ctx_after_connect_failure(ctx)
                      /\ last' = Call("open", address, port, model, FALSE,
                                      "ConnectionFailed", <<>>, FALSE, 0)
                   \/ /\ mb' = modbus_connected(ctx)
                      /\ g_ctx' = ctx
                      /\ last' = Call("open", address, port, model, TRUE, "", <<>>, FALSE, 0)

thermia_modbus_open(address, port, model) ==
    IF open_rejected
    THEN /\ last' = Call("open", address, port, model, FALSE, "AlreadyOpen", <<>>, FALSE, 0)
         /\ UNCHANGED <<g_ctx, g_model, mb, coils, holding>>
    ELSE /\ g_model' = model
         /\ \E ctx \in modbus_new_tcp :
              IF ctx = NULL
              THEN /\ g_ctx' = NULL
                   /\ last' = Call("open", address, port, model, FALSE,
                                   "InitialisationFailed", <<>>, FALSE, 0)
                   /\ UNCHANGED mb
              ELSE \/ /\ mb' = modbus_free(ctx)
                      /\ g_ctx' = open_ctx_after_connect_failure(ctx)
                      /\ last' = Call("open", address, port, model, FALSE,
                                      "ConnectionFailed", <<>>, FALSE, 0)
                   \/ /\ mb' = modbus_connected(ctx)
                      /\ g_ctx' = ctx
                      /\ last' = Call("open", address, port, model, TRUE, "", <<>>, FALSE, 0)
         /\ UNCHANGED <<coils, holding>>

\* thermia_modbus_close without its g_ctx = NULL
close_ctx_kept == g_ctx

\* g_ctx as thermia_modbus_close leaves it after releasing: g_ctx = NULL
close_ctx_after_release == NULL

thermia_modbus_close ==
    /\ IF g_ctx # NULL
       THEN /\ mb' = modbus_close_free(g_ctx)
            /\ g_ctx' = close_ctx_after_release
       ELSE UNCHANGED <<g_ctx, mb>>
    /\ last' = Call("close", "", 0, 0, TRUE, "", <<>>, FALSE, 0)
    /\ UNCHANGED <<g_model, coils, holding>>

----------------------------------------------------------------------------
(* Accessors: the guard macros *)

\* The guard left out.
MODBUS_CHECK_skipped(ctx) == FALSE

\* MODBUS_CHECK(ctx): the condition on which the macro returns false
MODBUS_CHECK(ctx) == ctx = NULL

\* The macro with only its first test.
REGISTER_CHECK_null_only(reg) ==
    IF reg = NULL THEN "RegisterNotFound" ELSE ""

\* REGISTER_CHECK(reg): the diagnostic on which the macro returns false, ""
\* when it lets the function go on
REGISTER_CHECK(reg) ==
    IF reg = NULL THEN "RegisterNotFound"
    ELSE IF ~is_register_supported(reg) THEN "UnsupportedForModel"
    ELSE ""

\* An error path that also drops the session pointer.
ReturnFalseDroppingSession(op, name, arg, err, wire) ==
    /\ last' = Call(op, name, 0, arg, FALSE, err, wire, FALSE, 0)
    /\ g_ctx' = NULL
    /\ UNCHANGED <<g_model, mb>>

\* An error path taken after the store through the output pointer.
ReturnFalseAfterStore(op, name, arg, err, wire) ==
    /\ last' = Call(op, name, 0, arg, FALSE, err, wire, TRUE, 0)
    /\ UNCHANGED <<g_ctx, g_model, mb>>

\* fprintf(stderr, ...); return false;  No error path touches the session.
ReturnFalse(op, name, arg, err, wire) ==
    /\ last' = Call(op, name, 0, arg, FALSE, err, wire, FALSE, 0)
    /\ UNCHANGED <<g_ctx, g_model, mb>>

\* return true;
ReturnTrue(op, name, arg, wire, written, out) ==
    /\ last' = Call(op, name, 0, arg, TRUE, "", wire, written, out)
    /\ UNCHANGED <<g_ctx, g_model, mb>>

----------------------------------------------------------------------------
(* Accessors: kind masks and wire functions *)

read_bit_mask == BitOr(REG_COIL_STATUS, REG_INPUT_STATUS)
read_int_mask == BitOr(REG_INPUT, REG_HOLDING)
write_bit_mask == REG_COIL_STATUS
\* The write mask widened to the read mask.
write_int_mask_as_read == BitOr(REG_INPUT, REG_HOLDING)

write_int_mask == REG_HOLDING

\* The two branches exchanged.
read_bit_fn_swapped(reg) ==
    IF g_registers[reg].type = REG_COIL_STATUS THEN "read_input_bits" ELSE "read_bits"

read_bit_fn(reg) ==
    IF g_registers[reg].type = REG_COIL_STATUS THEN "read_bits" ELSE "read_input_bits"

read_int_fn(reg) ==
    IF g_registers[reg].type = REG_INPUT THEN "read_input_registers" ELSE "read_registers"

----------------------------------------------------------------------------
(* Accessors: the four operations *)

thermia_modbus_read_register_bit(name) ==
    /\ UNCHANGED <<coils, holding>>
    /\ IF MODBUS_CHECK(g_ctx)
       THEN ReturnFalse("read_bit", name, 0, "NotInitialized", <<>>)
       ELSE LET reg == find_register(name, read_bit_mask)
                chk == REGISTER_CHECK(reg)
            IN  IF chk # ""
                THEN ReturnFalse("read_bit", name, 0, chk, <<>>)
                ELSE LET fn == read_bit_fn(reg)
                         addr == g_registers[reg].address
                     IN  \/ ReturnFalse("read_bit", name, 0, "ReadFailure",
                                        <<Request(fn, addr, 0, -1)>>)
                         \/ \E reg_value \in Answers(fn, addr) :
                              ReturnTrue("read_bit", name, 0,
                                         <<Request(fn, addr, reg_value, 1)>>,
                                         TRUE, IF reg_value # 0 THEN 1 ELSE 0)

thermia_modbus_read_register_int(name) ==
    /\ UNCHANGED <<coils, holding>>
    /\ IF MODBUS_CHECK(g_ctx)
       THEN ReturnFalse("read_int", name, 0, "NotInitialized", <<>>)
       ELSE LET reg == find_register(name, read_int_mask)
                chk == REGISTER_CHECK(reg)
            IN  IF chk # ""
                THEN ReturnFalse("read_int", name, 0, chk, <<>>)
                ELSE LET fn == read_int_fn(reg)
                         addr == g_registers[reg].address
                     IN  \/ ReturnFalse("read_int", name, 0, "ReadFailure",
                                        <<Request(fn, addr, 0, -1)>>)
                         \/ \E reg_value \in Answers(fn, addr) :
                              ReturnTrue("read_int", name, 0,
                                         <<Request(fn, addr, reg_value, 1)>>,
                                         TRUE, ToInt16(reg_value))

\* A write that fails on the transport may or may not have reached the
\* controller (the request or its confirmation was lost).
thermia_modbus_write_register_bit(name, value) ==
    LET arg == IF value THEN 1 ELSE 0
    IN  IF MODBUS_CHECK(g_ctx)
        THEN ReturnFalse("write_bit", name, arg, "NotInitialized", <<>>)
             /\ UNCHANGED <<coils, holding>>
        ELSE LET reg == find_register(name, write_bit_mask)
                 chk == REGISTER_CHECK(reg)
             IN  IF chk # ""
                 THEN ReturnFalse("write_bit", name, arg, chk, <<>>)
                      /\ UNCHANGED <<coils, holding>>
                 ELSE LET addr == g_registers[reg].address
                          sent == IF value THEN 1 ELSE 0
                      IN  /\ UNCHANGED holding
                          /\ \/ /\ ReturnFalse("write_bit", name, arg, "WriteFailure",
                                               <<Request("write_bit", addr, sent, -1)>>)
                                /\ coils' \in {coils, [coils EXCEPT ![addr] = sent]}
                             \/ /\ ReturnTrue("write_bit", name, arg,
                                              <<Request("write_bit", addr, sent, 1)>>,
                                              FALSE, 0)
                                /\ coils' = [coils EXCEPT ![addr] = sent]

thermia_modbus_write_register_int(name, value) ==
    IF MODBUS_CHECK(g_ctx)
    THEN ReturnFalse("write_int", name, value, "NotInitialized", <<>>)
         /\ UNCHANGED <<coils, holding>>
    ELSE LET reg == find_register(name, write_int_mask)
             chk == REGISTER_CHECK(reg)
         IN  IF chk # ""
             THEN ReturnFalse("write_int", name, value, chk, <<>>)
                  /\ UNCHANGED <<coils, holding>>
             ELSE LET addr == g_registers[reg].address
                      sent == ToUint16(value)
                  IN  /\ UNCHANGED coils
                      /\ \/ /\ ReturnFalse("write_int", name, value, "WriteFailure",
                                           <<Request("write_register", addr, sent, -1)>>)
                            /\ holding' \in {holding, [holding EXCEPT ![addr] = sent]}
                         \/ /\ ReturnTrue("write_int", name, value,
                                          <<Request("write_register", addr, sent, 1)>>,
                                          FALSE, 0)
                            /\ holding' = [holding EXCEPT ![addr] = sent]

----------------------------------------------------------------------------
(* The library under any caller *)

NoCall == Call("none", "", 0, 0, TRUE, "", <<>>, FALSE, 0)

\* The harness is not running.
MainAtRest ==
    /\ argv = <<>>
    /\ pc = "none"
    /\ main_model = 0
    /\ argi = 0
    /\ stdout = <<>>
    /\ stderr = ""
    /\ status = 0

\* The daemon is not running.
DaemonAtRest ==
    /\ CURRENT_IP = ""
    /\ AVAHI_PID = 0
    /\ last_scan = 0
    /\ last_probe = 0
    /\ now = 0
    /\ last_bg = 0
    /\ dpc = "none"
    /\ start_from = ""
    /\ alive = {}
    /\ spawned = 0
    /\ clock = 0
    /\ device_ip = ""

Init ==
    /\ MainAtRest
    /\ DaemonAtRest
    /\ g_ctx = NULL
    /\ g_model = MODEL_MEGA
    /\ mb = [h \in 1..MaxTransports |-> NoTransport]
    /\ coils \in [CoilAddrs -> BitValues]
    /\ holding \in [HoldingAddrs -> RawValues]
    /\ last = NoCall

Open ==
    /\ \E address \in Hosts, port \in Ports, model \in Models :
           thermia_modbus_open(address, port, model)
    /\ UNCHANGED <<mainvars, daemonvars>>
Close ==
    /\ thermia_modbus_close
    /\ UNCHANGED <<mainvars, daemonvars>>
ReadBit ==
    /\ \E name \in Names : thermia_modbus_read_register_bit(name)
    /\ UNCHANGED <<mainvars, daemonvars>>
ReadInt ==
    /\ \E name \in Names : thermia_modbus_read_register_int(name)
    /\ UNCHANGED <<mainvars, daemonvars>>
WriteBit ==
    /\ \E name \in Names, value \in BOOLEAN :
           thermia_modbus_write_register_bit(name, value)
    /\ UNCHANGED <<mainvars, daemonvars>>
WriteInt ==
    /\ \E name \in Names, value \in WriteValues :
           thermia_modbus_write_register_int(name, value)
    /\ UNCHANGED <<mainvars, daemonvars>>

Next == Open \/ Close \/ ReadBit \/ ReadInt \/ WriteBit \/ WriteInt

Spec == Init /\ [][Next]_vars

----------------------------------------------------------------------------
(* thermia_modbus_read_register_int over every 16-bit word *)

\* Names that read int resolves to a holding register.
HoldingNames ==
    {name \in Names :
        LET reg == find_register(name, read_int_mask)
        IN  reg # NULL /\ g_registers[reg].type = REG_HOLDING}

\* The session as thermia_modbus_open(address, 502, MODEL_MEGA) leaves it
\* when it succeeds first time, against a controller whose holding
\* registers hold any one 16-bit word.
InitInt16 ==
    /\ MainAtRest
    /\ DaemonAtRest
    /\ g_ctx = 1
    /\ g_model = MODEL_MEGA
    /\ mb = [h \in 1..MaxTransports |->
                IF h = 1 THEN [state |-> "connected", slave |-> SLAVE_ID,
                               closes |-> 0, frees |-> 0]
                ELSE NoTransport]
    /\ coils = [a \in CoilAddrs |-> 0]
    /\ holding \in {[a \in HoldingAddrs |-> r] : r \in 0..65535}
    /\ last = Call("open", "192.168.0.106", 502, MODEL_MEGA, TRUE, "", <<>>, FALSE, 0)

NextInt16 ==
    /\ \E name \in HoldingNames : thermia_modbus_read_register_int(name)
    /\ UNCHANGED <<mainvars, daemonvars>>

SpecInt16 == InitInt16 /\ [][NextInt16]_vars

----------------------------------------------------------------------------
(* A caller that opens, writes one int and reads it back *)

\* Every int16 value, and ints outside 16 bits on both sides.
WrapValues == (-32768..32767) \cup {-65536, -32769, 32768, 65541, 98304}

InitWrap ==
    /\ MainAtRest
    /\ DaemonAtRest
    /\ g_ctx = 1
    /\ g_model = MODEL_MEGA
    /\ mb = [h \in 1..MaxTransports |->
                IF h = 1 THEN [state |-> "connected", slave |-> SLAVE_ID,
                               closes |-> 0, frees |-> 0]
                ELSE NoTransport]
    /\ coils = [a \in CoilAddrs |-> 0]
    /\ holding = [a \in HoldingAddrs |-> 5]
    /\ last = Call("open", "192.168.0.106", 502, MODEL_MEGA, TRUE, "", <<>>, FALSE, 0)

WrapWrite ==
    /\ last.op = "open"
    /\ \E name \in HoldingNames, value \in WrapValues :
           thermia_modbus_write_register_int(name, value)
    /\ UNCHANGED <<mainvars, daemonvars>>

WrapRead ==
    /\ last.op = "write_int"
    /\ thermia_modbus_read_register_int(last.name)
    /\ UNCHANGED <<mainvars, daemonvars>>

NextWrap == WrapWrite \/ WrapRead

SpecWrap == InitWrap /\ [][NextWrap]_vars

----------------------------------------------------------------------------
(* The command-line harness: main, compiled with -DTEST *)

\* Arguments after the operation that one command line carries.
MaxArgs == 2

ModelTokens == {"mega", "inverter", "Mega"}
OperationTokens == {"read", "write", "dump"}
ValueTokens == {"1", "-10"}
ArgTokens ==
    {"enableHeatpumpResetAllAlarms", "alarmHeatpumpBrineInSensor",
     "valueHeatpumpBrineInTemperature", "valueHeatpumpSoftwareVersionMajor",
     "valueTwice", "noSuchRegister"} \cup ValueTokens

\* The command lines: too short ones, and prog address model operation
\* followed by up to MaxArgs further arguments.
ArgVectors ==
    {<<"thermia">>, <<"thermia", "thermia.local">>}
    \cup {<<"thermia", "thermia.local", m>> : m \in ModelTokens}
    \cup UNION {{<<"thermia", "thermia.local", m, o>> \o rest :
                    m \in ModelTokens, o \in OperationTokens,
                    rest \in [1..n -> ArgTokens]} : n \in 0..MaxArgs}

argc == Len(argv)
ARGV(k) == argv[k + 1]

\* atoi: the decimal number the string starts with, 0 when it starts with
\* none (a register name, say).
atoi(str) ==
    CASE str = "1" -> 1
      [] str = "-10" -> -10
      [] OTHER -> 0

\* strcmp(model_str, "mega") / strcmp(model_str, "inverter"); 0 stands for
\* the else branch.
main_parse_model_default_mega(model_str) ==
    IF model_str = "inverter" THEN MODEL_INVERTER ELSE MODEL_MEGA

main_parse_model(model_str) ==
    CASE model_str = "mega" -> MODEL_MEGA
      [] model_str = "inverter" -> MODEL_INVERTER
      [] OTHER -> 0

main_read_mask ==
    BitOr(BitOr(REG_COIL_STATUS, REG_INPUT_STATUS), BitOr(REG_INPUT, REG_HOLDING))
main_write_mask == BitOr(REG_COIL_STATUS, REG_HOLDING)

\* reg->scale > 1
main_shows_scaled_from_one(reg) == g_registers[reg].scale >= 1

main_shows_scaled(reg) == g_registers[reg].scale > 1

\* (double)value / scale as "%.2f" prints it, in hundredths; the quotient is
\* exact for the scales the catalog uses (1, 10, 100).
Hundredths(value, scale) == (200 * value + scale) \div (2 * scale)

\* One line of standard output: "name = value (read)", "name = shown (read)
\* (raw = value)", "name = value (write)", or the usage text.
Line(name, op, value, scaled, shown) ==
    [name |-> name, op |-> op, value |-> value, scaled |-> scaled,
     shown |-> shown]

ReadLine(reg_name, value) == Line(reg_name, "read", value, FALSE, 0)
ScaledLine(reg_name, value, scale) ==
    Line(reg_name, "read", value, TRUE, Hundredths(value, scale))
WriteLine(reg_name, value) == Line(reg_name, "write", value, FALSE, 0)
UsageLine == Line("", "usage", 0, FALSE, 0)

\* main up to the call of thermia_modbus_open: the argument count and the
\* model token.
MainStart ==
    /\ pc = "start"
    /\ IF argc < 5
       THEN /\ stdout' = Append(stdout, UsageLine)
            /\ status' = 1
            /\ pc' = "exit"
            /\ UNCHANGED <<main_model, stderr>>
       ELSE IF main_parse_model(ARGV(2)) = 0
       THEN /\ stderr' = "model unknown"
            /\ status' = EXIT_FAILURE
            /\ pc' = "exit"
            /\ UNCHANGED <<main_model, stdout>>
       ELSE /\ main_model' = main_parse_model(ARGV(2))
            /\ pc' = "open"
            /\ UNCHANGED <<stdout, stderr, status>>
    /\ UNCHANGED <<argv, argi>>
    /\ UNCHANGED libvars
    /\ UNCHANGED daemonvars

MainOpen ==
    /\ pc = "open"
    /\ thermia_modbus_open(ARGV(1), MAIN_PORT, main_model)
    /\ IF last'.ret
       THEN pc' = "dispatch" /\ UNCHANGED status
       ELSE pc' = "exit" /\ status' = EXIT_FAILURE
    /\ UNCHANGED <<argv, main_model, argi, stdout, stderr>>
    /\ UNCHANGED daemonvars

\* The branch on the operation, and the check for the value of a write.
MainDispatch ==
    /\ pc = "dispatch"
    /\ IF ARGV(3) = "read"
       THEN argi' = 4 /\ pc' = "read" /\ UNCHANGED stderr
       ELSE IF ARGV(3) = "write"
       THEN IF argc < 6
            THEN /\ stderr' = "register: missing value for write operation"
                 /\ pc' = "failure"
                 /\ UNCHANGED argi
            ELSE pc' = "write" /\ UNCHANGED <<argi, stderr>>
       ELSE /\ stderr' = "operation unknown"
            /\ pc' = "failure"
            /\ UNCHANGED argi
    /\ UNCHANGED <<argv, main_model, stdout, status>>
    /\ UNCHANGED libvars
    /\ UNCHANGED daemonvars

\* One pass of for (argi = 4; argi < argc; argi++), or the way out of it.
MainRead ==
    /\ pc = "read"
    /\ IF argi >= argc
       THEN /\ pc' = "close"
            /\ UNCHANGED <<argi, stdout, stderr>>
            /\ UNCHANGED libvars
       ELSE LET reg_name == ARGV(argi)
                reg == find_register(reg_name, main_read_mask)
            IN  IF reg = NULL
                THEN /\ stderr' = "register: not found"
                     /\ pc' = "failure"
                     /\ UNCHANGED <<argi, stdout>>
                     /\ UNCHANGED libvars
                ELSE IF g_registers[reg].type \in {REG_COIL_STATUS, REG_INPUT_STATUS}
                THEN /\ thermia_modbus_read_register_bit(reg_name)
                     /\ stdout' = IF last'.ret
                                  THEN Append(stdout, ReadLine(reg_name, last'.out))
                                  ELSE stdout
                     /\ argi' = argi + 1
                     /\ UNCHANGED <<pc, stderr>>
                ELSE /\ thermia_modbus_read_register_int(reg_name)
                     /\ stdout' =
                            IF ~last'.ret THEN stdout
                            ELSE IF main_shows_scaled(reg)
                            THEN Append(stdout, ScaledLine(reg_name, last'.out,
                                                           g_registers[reg].scale))
                            ELSE Append(stdout, ReadLine(reg_name, last'.out))
                     /\ argi' = argi + 1
                     /\ UNCHANGED <<pc, stderr>>
    /\ UNCHANGED <<argv, main_model, status>>
    /\ UNCHANGED daemonvars

MainWrite ==
    /\ pc = "write"
    /\ LET reg_name == ARGV(4)
           reg == find_register(reg_name, main_write_mask)
           value == atoi(ARGV(5))
       IN  IF reg = NULL
           THEN /\ stderr' = "register: not found"
                /\ pc' = "failure"
                /\ UNCHANGED stdout
                /\ UNCHANGED libvars
           ELSE /\ IF g_registers[reg].type = REG_COIL_STATUS
                   THEN thermia_modbus_write_register_bit(reg_name, value # 0)
                   ELSE thermia_modbus_write_register_int(reg_name, value)
                /\ stdout' = IF last'.ret
                             THEN Append(stdout, WriteLine(reg_name, value))
                             ELSE stdout
                /\ pc' = "close"
                /\ UNCHANGED stderr
    /\ UNCHANGED <<argv, main_model, argi, status>>
    /\ UNCHANGED daemonvars

\* thermia_modbus_close(); return EXIT_SUCCESS;
MainClose ==
    /\ pc = "close"
    /\ thermia_modbus_close
    /\ status' = EXIT_SUCCESS
    /\ pc' = "exit"
    /\ UNCHANGED <<argv, main_model, argi, stdout, stderr>>
    /\ UNCHANGED daemonvars

main_failure_status_success == EXIT_SUCCESS

main_failure_status == EXIT_FAILURE

MainFailureWithoutClose ==
    /\ pc = "failure"
    /\ status' = main_failure_status
    /\ pc' = "exit"
    /\ UNCHANGED <<argv, main_model, argi, stdout, stderr>>
    /\ UNCHANGED libvars
    /\ UNCHANGED daemonvars

\* failure: thermia_modbus_close(); return EXIT_FAILURE;
MainFailure ==
    /\ pc = "failure"
    /\ thermia_modbus_close
    /\ status' = main_failure_status
    /\ pc' = "exit"
    /\ UNCHANGED <<argv, main_model, argi, stdout, stderr>>
    /\ UNCHANGED daemonvars

\* The device the harness talks to.
MainCoils == [a \in CoilAddrs |-> 1]
MainHolding == [a \in HoldingAddrs |-> IF a = 100 THEN 65526 ELSE 220]

InitMain ==
    /\ argv \in ArgVectors
    /\ pc = "start"
    /\ main_model = 0
    /\ argi = 0
    /\ stdout = <<>>
    /\ stderr = ""
    /\ status = 0
    /\ DaemonAtRest
    /\ g_ctx = NULL
    /\ g_model = MODEL_MEGA
    /\ mb = [h \in 1..MaxTransports |-> NoTransport]
    /\ coils = MainCoils
    /\ holding = MainHolding
    /\ last = NoCall

NextMain ==
    \/ MainStart
    \/ MainOpen
    \/ MainDispatch
    \/ MainRead
    \/ MainWrite
    \/ MainClose
    \/ MainFailure

SpecMain == InitMain /\ [][NextMain]_vars

----------------------------------------------------------------------------
(* The discovery daemon: thermia-publish *)

\* SCAN_INTERVAL and PROBE_INTERVAL when the environment sets neither
SCAN_INTERVAL == 60
PROBE_INTERVAL == 300
\* sleep 5 at the end of an iteration, sleep 2 in the ping sweep
LOOP_SLEEP == 5
SWEEP_SLEEP == 2

\* The time of day when the daemon starts and the last one looked at.
BootTime == 1000
MaxClock == 1400
\* Publisher processes started in one run.
MaxPublishers == 3

DeviceIPs == {"192.168.0.106", "192.168.0.107"}

other_vars == <<g_ctx, g_model, mb, coils, holding, last,
                argv, pc, main_model, argi, stdout, stderr, status>>

\* kill -0 "$AVAHI_PID" with a non-empty AVAHI_PID
publisher_running == AVAHI_PID # 0 /\ AVAHI_PID \in alive

\* What find_ip_for_mac can print: the address the device answers at (from
\* the neighbour table, or after the ping sweep), or nothing when the device
\* is away or did not answer the sweep in time.
find_ip_for_mac == IF device_ip = "" THEN {""} ELSE {device_ip, ""}

verify_ip_unchecked(ip) == TRUE

\* verify_ip: the address answers the ping and the neighbour table shows the
\* device's MAC for it.
verify_ip(ip) == device_ip = ip

stop_alive_unkilled == alive

\* The processes left once stop_avahi_publish has killed the publisher and
\* waited for it.
stop_alive == IF publisher_running THEN alive \ {AVAHI_PID} ELSE alive

\* now=$(date +%s)
DaemonTop ==
    /\ dpc = "top"
    /\ now' = clock
    /\ dpc' = "probe"
    /\ UNCHANGED <<CURRENT_IP, AVAHI_PID, last_scan, last_probe, last_bg,
                   start_from, alive, spawned, clock, device_ip>>
    /\ UNCHANGED other_vars

\* The probe of a held address, with stop_avahi_publish when it fails.
DaemonProbe ==
    /\ dpc = "probe"
    /\ IF CURRENT_IP # "" /\ now - last_probe >= PROBE_INTERVAL
       THEN /\ last_probe' = now
            /\ IF verify_ip(CURRENT_IP)
               THEN UNCHANGED <<CURRENT_IP, AVAHI_PID, alive>>
               ELSE /\ alive' = stop_alive
                    /\ AVAHI_PID' = 0
                    /\ CURRENT_IP' = ""
       ELSE UNCHANGED <<CURRENT_IP, AVAHI_PID, alive, last_probe>>
    /\ dpc' = "scan"
    /\ UNCHANGED <<last_scan, now, last_bg, start_from, spawned, clock,
                   device_ip>>
    /\ UNCHANGED other_vars

scan_due_either == CURRENT_IP = "" \/ now - last_scan >= SCAN_INTERVAL

\* [[ -z "$CURRENT_IP" ]] && (( now - last_scan >= SCAN_INTERVAL ))
scan_due == CURRENT_IP = "" /\ now - last_scan >= SCAN_INTERVAL

\* The scan for the device, up to the call of start_avahi_publish.
DaemonScan ==
    /\ dpc = "scan"
    /\ IF scan_due
       THEN /\ last_scan' = now
            /\ \E new_ip \in find_ip_for_mac :
                  IF new_ip # "" /\ new_ip # CURRENT_IP
                  THEN /\ CURRENT_IP' = new_ip
                       /\ start_from' = "scan"
                       /\ dpc' = "start_kill"
                  ELSE /\ dpc' = "check"
                       /\ UNCHANGED <<CURRENT_IP, start_from>>
            /\ clock' \in {clock, clock + SWEEP_SLEEP}
       ELSE /\ dpc' = "check"
            /\ UNCHANGED <<CURRENT_IP, last_scan, start_from, clock>>
    /\ UNCHANGED <<AVAHI_PID, last_probe, now, last_bg, alive, spawned,
                   device_ip>>
    /\ UNCHANGED other_vars

\* start_avahi_publish: "Kill existing if running"
StartKill ==
    /\ dpc = "start_kill"
    /\ IF publisher_running
       THEN alive' = alive \ {AVAHI_PID} /\ AVAHI_PID' = 0
       ELSE UNCHANGED <<alive, AVAHI_PID>>
    /\ dpc' = "start_launch"
    /\ UNCHANGED <<CURRENT_IP, last_scan, last_probe, now, last_bg,
                   start_from, spawned, clock, device_ip>>
    /\ UNCHANGED other_vars

\* start_avahi_publish: avahi-publish-address -R -a "$hostname" "$ip" &
StartLaunch ==
    /\ dpc = "start_launch"
    /\ spawned < MaxPublishers
    /\ spawned' = spawned + 1
    /\ alive' = alive \cup {spawned + 1}
    /\ last_bg' = spawned + 1
    /\ dpc' = "start_record"
    /\ UNCHANGED <<CURRENT_IP, AVAHI_PID, last_scan, last_probe, now,
                   start_from, clock, device_ip>>
    /\ UNCHANGED other_vars

\* start_avahi_publish: AVAHI_PID=$!, and the return to the caller; the scan
\* goes on with last_probe=$now.
StartRecord ==
    /\ dpc = "start_record"
    /\ AVAHI_PID' = last_bg
    /\ IF start_from = "scan"
       THEN last_probe' = now /\ dpc' = "check"
       ELSE UNCHANGED last_probe /\ dpc' = "sleep"
    /\ start_from' = ""
    /\ UNCHANGED <<CURRENT_IP, last_scan, now, last_bg, alive, spawned,
                   clock, device_ip>>
    /\ UNCHANGED other_vars

\* "Check if avahi-publish is still running"
DaemonCheck ==
    /\ dpc = "check"
    /\ IF AVAHI_PID # 0 /\ AVAHI_PID \notin alive
       THEN IF CURRENT_IP # ""
            THEN /\ start_from' = "check"
                 /\ dpc' = "start_kill"
                 /\ UNCHANGED AVAHI_PID
            ELSE /\ AVAHI_PID' = 0
                 /\ dpc' = "sleep"
                 /\ UNCHANGED start_from
       ELSE /\ dpc' = "sleep"
            /\ UNCHANGED <<AVAHI_PID, start_from>>
    /\ UNCHANGED <<CURRENT_IP, last_scan, last_probe, now, last_bg, alive,
                   spawned, clock, device_ip>>
    /\ UNCHANGED other_vars

\* sleep 5
DaemonSleep ==
    /\ dpc = "sleep"
    /\ clock + LOOP_SLEEP <= MaxClock
    /\ clock' = clock + LOOP_SLEEP
    /\ dpc' = "top"
    /\ UNCHANGED <<CURRENT_IP, AVAHI_PID, last_scan, last_probe, now, last_bg,
                   start_from, alive, spawned, device_ip>>
    /\ UNCHANGED other_vars

\* cleanup, on SIGTERM, SIGINT or SIGHUP between two commands
DaemonCleanup ==
    /\ dpc \notin {"none", "exited"}
    /\ alive' = IF publisher_running THEN alive \ {AVAHI_PID} ELSE alive
    /\ dpc' = "exited"
    /\ UNCHANGED <<CURRENT_IP, AVAHI_PID, last_scan, last_probe, now, last_bg,
                   start_from, spawned, clock, device_ip>>
    /\ UNCHANGED other_vars

\* A publisher process ends by itself.
PublisherDies ==
    /\ \E p \in alive : alive' = alive \ {p}
    /\ UNCHANGED <<CURRENT_IP, AVAHI_PID, last_scan, last_probe, now, last_bg,
                   dpc, start_from, spawned, clock, device_ip>>
    /\ UNCHANGED other_vars

\* The device leaves the network, comes back or gets another address.
DeviceMoves ==
    /\ dpc # "exited"
    /\ \E ip \in DeviceIPs \cup {""} : ip # device_ip /\ device_ip' = ip
    /\ UNCHANGED <<CURRENT_IP, AVAHI_PID, last_scan, last_probe, now, last_bg,
                   dpc, start_from, alive, spawned, clock>>
    /\ UNCHANGED other_vars

InitDaemon ==
    /\ MainAtRest
    /\ g_ctx = NULL
    /\ g_model = MODEL_MEGA
    /\ mb = [h \in 1..MaxTransports |-> NoTransport]
    /\ coils = MainCoils
    /\ holding = MainHolding
    /\ last = NoCall
    /\ CURRENT_IP = ""
    /\ AVAHI_PID = 0
    /\ last_scan = 0
    /\ last_probe = 0
    /\ now = 0
    /\ last_bg = 0
    /\ dpc = "top"
    /\ start_from = ""
    /\ alive = {}
    /\ spawned = 0
    /\ clock = BootTime
    /\ device_ip \in DeviceIPs \cup {""}

NextDaemon ==
    \/ DaemonTop
    \/ DaemonProbe
    \/ DaemonScan
    \/ StartKill
    \/ StartLaunch
    \/ StartRecord
    \/ DaemonCheck
    \/ DaemonSleep
    \/ DaemonCleanup
    \/ PublisherDies
    \/ DeviceMoves

SpecDaemon == InitDaemon /\ [][NextDaemon]_vars

\* The commands of the script itself: bash runs them one after the other,
\* and each of them ends (the sleeps, the ping with its timeout, the wait for
\* a process that was sent SIGTERM).
DaemonStep ==
    \/ DaemonTop
    \/ DaemonProbe
    \/ DaemonScan
    \/ StartKill
    \/ StartLaunch
    \/ StartRecord
    \/ DaemonCheck
    \/ DaemonSleep

SpecDaemonLive == InitDaemon /\ [][NextDaemon]_vars /\ WF_vars(DaemonStep)

----------------------------------------------------------------------------
(* Properties of the session *)

Transports == 1..MaxTransports

\* C1: an open attempted while a session is open returns false with the
\* "initialised already" diagnostic (AlreadyOpen) whatever address, port and
\* model it is given, and g_ctx, g_model and every transport object are the
\* same after the call as before it (no transport is created).
C1_OpenWhileOpenRejected ==
    [][ (g_ctx # NULL /\ last'.op = "open") =>
            /\ last'.ret = FALSE
            /\ last'.err = "AlreadyOpen"
            /\ g_ctx' = g_ctx
            /\ g_model' = g_model
            /\ mb' = mb ]_vars

\* An open with a model other than the session's was rejected, and the
\* session's transport is still connected.
C1_Witness ==
    /\ last.op = "open"
    /\ last.err = "AlreadyOpen"
    /\ g_ctx # NULL
    /\ last.arg # g_model
    /\ mb[g_ctx].state = "connected"

\* C2: close always returns with g_ctx = NULL; on a closed session it changes
\* nothing and releases nothing; on an open session it closes and frees
\* exactly the session's transport; and no transport is ever freed more than
\* once, however many closes follow.
C2_CloseIdempotent ==
    [][ /\ last'.op = "close" => g_ctx' = NULL
        /\ (last'.op = "close" /\ g_ctx = NULL) =>
               UNCHANGED <<g_ctx, g_model, mb, coils, holding>>
        /\ (last'.op = "close" /\ g_ctx # NULL) =>
               /\ mb'[g_ctx].state = "freed"
               /\ mb'[g_ctx].frees = mb[g_ctx].frees + 1
               /\ \A h \in Transports \ {g_ctx} : mb'[h] = mb[h]
        /\ \A h \in Transports :
               mb'[h].frees = IF mb'[h].state = "freed" THEN 1 ELSE 0 ]_vars

\* A close has run on a closed session: the first transport was connected
\* and released by a close, then an open failed at connect (the second
\* transport was freed without ever being closed), then close was called.
C2_Witness ==
    /\ last.op = "close"
    /\ g_ctx = NULL
    /\ mb[1].closes = 1 /\ mb[1].frees = 1
    /\ mb[2].state = "freed" /\ mb[2].closes = 0

\* C3: the session moves only Closed -> Open by a successful open, Open ->
\* Closed by close, and stays Closed through a failed open, which retains no
\* transport (none is left connected, g_ctx is NULL) and is never reported
\* as AlreadyOpen; a successful open starts from Closed; accessors never
\* change g_ctx.
C3_SessionStateMachine ==
    [][ /\ (g_ctx = NULL /\ g_ctx' # NULL) =>
               /\ last'.op = "open"
               /\ last'.ret = TRUE
               /\ g_ctx' \in Transports
               /\ mb'[g_ctx'].state = "connected"
        /\ (g_ctx # NULL /\ g_ctx' # g_ctx) =>
               (last'.op = "close" /\ g_ctx' = NULL)
        /\ (g_ctx = NULL /\ last'.op = "open" /\ last'.ret = FALSE) =>
               /\ g_ctx' = NULL
               /\ last'.err \in {"InitialisationFailed", "ConnectionFailed"}
               /\ \A h \in Transports : mb'[h].state # "connected"
        /\ (last'.op = "open" /\ last'.ret = TRUE) => (g_ctx = NULL /\ g_ctx' # NULL)
        /\ last'.op \in AccessorOps => g_ctx' = g_ctx ]_vars

\* An open succeeds on the second transport after the first one was freed by
\* an open whose connect failed (it was never closed).
C3_Witness ==
    /\ last.op = "open"
    /\ last.ret = TRUE
    /\ g_ctx = 2
    /\ mb[1].state = "freed"
    /\ mb[1].closes = 0

----------------------------------------------------------------------------
(* Properties of the accessors *)

\* The register kinds an operation accepts.
KindsOf(op) ==
    CASE op = "read_bit" -> {REG_COIL_STATUS, REG_INPUT_STATUS}
      [] op = "read_int" -> {REG_INPUT, REG_HOLDING}
      [] op = "write_bit" -> {REG_COIL_STATUS}
      [] op = "write_int" -> {REG_HOLDING}

\* The row a name resolves to under an operation: the first row in table
\* order with that name and an accepted kind, 0 when there is none.
Resolved(op, name) ==
    LET hits == {i \in 1..g_num_registers :
                    g_registers[i].name = name /\ g_registers[i].type \in KindsOf(op)}
    IN  IF hits = {} THEN 0 ELSE CHOOSE i \in hits : \A j \in hits : i <= j

\* The applicable-model set of a row.
ApplicableModels(i) == {m \in Models : (g_registers[i].model \div m) % 2 = 1}

RowsNamed(name) == {i \in 1..g_num_registers : g_registers[i].name = name}

\* The name has rows, and all of them are of the one kind.
OnlyKind(name, kind) ==
    /\ RowsNamed(name) # {}
    /\ \A i \in RowsNamed(name) : g_registers[i].type = kind

\* C4: on an open session, an accessor whose name resolves under its kind
\* mask to a register whose applicable models exclude the session's model
\* returns false with "not supported by model" (UnsupportedForModel), issues
\* no wire request and leaves the controller untouched.
C4_UnsupportedForModel ==
    [][ (/\ last'.op \in AccessorOps
         /\ g_ctx # NULL
         /\ Resolved(last'.op, last'.name) # 0
         /\ g_model \notin ApplicableModels(Resolved(last'.op, last'.name))) =>
            /\ last'.ret = FALSE
            /\ last'.err = "UnsupportedForModel"
            /\ last'.wire = <<>>
            /\ UNCHANGED <<coils, holding>> ]_vars

\* A write bit to a coil that exists for Mega only was refused on a session
\* opened for Inverter.
C4_Witness ==
    /\ last.op = "write_bit"
    /\ last.err = "UnsupportedForModel"
    /\ g_ctx # NULL
    /\ g_model = MODEL_INVERTER
    /\ Resolved("write_bit", last.name) # 0
    /\ ApplicableModels(Resolved("write_bit", last.name)) = {MODEL_MEGA}

\* C5: on an open session, write int on a name whose rows are all
\* InputRegister, and write bit on a name whose rows are all InputStatus,
\* return false with "not found" (RegisterNotFound), as they do for a name
\* that is in no row, under either model; no request is issued and the
\* controller is untouched.
C5_WriteEligibility ==
    [][ (/\ g_ctx # NULL
         /\ \/ last'.op = "write_int" /\ OnlyKind(last'.name, REG_INPUT)
            \/ last'.op = "write_bit" /\ OnlyKind(last'.name, REG_INPUT_STATUS)
            \/ last'.op \in {"write_int", "write_bit"} /\ RowsNamed(last'.name) = {}) =>
            /\ last'.ret = FALSE
            /\ last'.err = "RegisterNotFound"
            /\ last'.wire = <<>>
            /\ UNCHANGED <<coils, holding>> ]_vars

\* A write int to an input register that the session's model does have was
\* answered "not found".
C5_Witness ==
    /\ last.op = "write_int"
    /\ last.err = "RegisterNotFound"
    /\ g_ctx # NULL
    /\ OnlyKind(last.name, REG_INPUT)
    /\ g_model \in ApplicableModels(Resolved("read_int", last.name))

\* C6: an accessor issues exactly one wire request when the session is open,
\* the name resolves under its kind mask and the register is supported by
\* the session's model, and none otherwise (so a failed request is not
\* repeated); open and close issue none; the controller's tables change
\* only in a call that issued a request.
C6_WireRequests ==
    [][ /\ last'.op \in AccessorOps =>
               Len(last'.wire) =
                   IF /\ g_ctx # NULL
                      /\ Resolved(last'.op, last'.name) # 0
                      /\ g_model \in ApplicableModels(Resolved(last'.op, last'.name))
                   THEN 1 ELSE 0
        /\ last'.op \notin AccessorOps => last'.wire = <<>>
        /\ (coils' # coils \/ holding' # holding) => last'.wire # <<>> ]_vars

\* A read whose single request failed on the transport.
C6_Witness ==
    /\ last.err = "ReadFailure"
    /\ Len(last.wire) = 1
    /\ last.wire[1].rc = -1

\* C7: an accessor that returns false on an open session leaves g_ctx,
\* g_model and the transports as they were (the session stays open); the
\* accessor called next is not turned away as uninitialised and its request
\* goes out on the same transport; an open session becomes closed only in a
\* call of close.
C7_FailureKeepsSession ==
    [][ /\ (last'.op \in AccessorOps /\ last'.ret = FALSE /\ g_ctx # NULL) =>
               /\ g_ctx' = g_ctx
               /\ g_model' = g_model
               /\ mb' = mb
               /\ mb'[g_ctx'].state = "connected"
        /\ (/\ g_ctx # NULL
            /\ last.op \in AccessorOps /\ last.ret = FALSE
            /\ last'.op \in AccessorOps) =>
               /\ last'.err # "NotInitialized"
               /\ \A k \in 1..Len(last'.wire) : last'.wire[k].ctx = g_ctx
        /\ (g_ctx # NULL /\ g_ctx' = NULL) => last'.op = "close" ]_vars

\* A write failed on the transport and the session is still open.
C7_Witness ==
    /\ last.err = "WriteFailure"
    /\ g_ctx # NULL
    /\ mb[g_ctx].state = "connected"

\* C8: with no session open, every accessor returns false with "not
\* initialised/connected" (NotInitialized) for every name, issues no wire
\* request, does not store through the caller's output pointer and leaves
\* the controller untouched.
C8_NotInitialized ==
    [][ (g_ctx = NULL /\ last'.op \in AccessorOps) =>
            /\ last'.ret = FALSE
            /\ last'.err = "NotInitialized"
            /\ last'.wire = <<>>
            /\ last'.written = FALSE
            /\ UNCHANGED <<coils, holding>> ]_vars

\* An accessor was turned away after an open that failed at connect.
C8_Witness ==
    /\ last.op \in AccessorOps
    /\ last.err = "NotInitialized"
    /\ g_ctx = NULL
    /\ mb[1].state = "freed"
    /\ mb[1].closes = 0

\* The wire function an operation uses for a register kind.
WireFunction(op, kind) ==
    CASE op = "read_bit" /\ kind = REG_COIL_STATUS -> "read_bits"
      [] op = "read_bit" /\ kind = REG_INPUT_STATUS -> "read_input_bits"
      [] op = "read_int" /\ kind = REG_INPUT -> "read_input_registers"
      [] op = "read_int" /\ kind = REG_HOLDING -> "read_registers"
      [] op = "write_bit" /\ kind = REG_COIL_STATUS -> "write_bit"
      [] op = "write_int" /\ kind = REG_HOLDING -> "write_register"
      [] OTHER -> "none"

\* C9: every request an accessor issues uses the wire function fixed for the
\* operation and the kind of the register the name resolves to (read coils /
\* read discrete inputs, read input registers / read holding registers,
\* write single coil, write single register), asks for one item, and is
\* addressed to that register's address.
C9_KindToWireFunction ==
    last.op \in AccessorOps =>
        \A k \in 1..Len(last.wire) :
            LET req == last.wire[k]
                row == Resolved(last.op, last.name)
            IN  /\ row # 0
                /\ req.fn = WireFunction(last.op, g_registers[row].type)
                /\ req.nb = 1
                /\ req.addr = g_registers[row].address

\* A read bit of an InputStatus register went out as "read discrete inputs".
C9_Witness ==
    /\ last.op = "read_bit"
    /\ last.ret = TRUE
    /\ last.wire # <<>>
    /\ last.wire[1].fn = "read_input_bits"
    /\ g_registers[Resolved("read_bit", last.name)].type = REG_INPUT_STATUS

----------------------------------------------------------------------------
(* Properties of the value conversions *)

\* C10: a successful read int whose request was answered with the 16-bit
\* word r stores r when r < 32768 and r - 65536 otherwise, always a value in
\* -32768..32767; 0xFFF6 (65526) reads as -10 and 0x0005 as 5.
C10_ReadIntSignExtension ==
    (last.op = "read_int" /\ last.ret = TRUE) =>
        LET r == last.wire[1].val
        IN  /\ r \in 0..65535
            /\ last.written = TRUE
            /\ last.out = IF r < 32768 THEN r ELSE r - 65536
            /\ last.out \in -32768..32767
            /\ r = 65526 => last.out = -10
            /\ r = 5 => last.out = 5

\* The word 0xFFF6 was read from a holding register and stored as -10.
C10_Witness ==
    /\ last.op = "read_int"
    /\ last.ret = TRUE
    /\ last.wire[1].fn = "read_registers"
    /\ last.wire[1].val = 65526
    /\ last.out = -10


\* C11: a write int that passes the checks sends the one 16-bit word
\* congruent to the caller's int modulo 2^16 (ints below 0 or above 65535
\* are wrapped, not refused); and when a write int of v in -32768..32767
\* succeeded, a successful read int of the same name that resolves to the
\* same holding register, made next, stores v.
C11_WriteIntWrapsAndReadsBack ==
    [][ /\ (last'.op = "write_int" /\ last'.wire # <<>>) =>
               /\ last'.wire[1].fn = "write_register"
               /\ last'.wire[1].val \in 0..65535
               /\ (last'.wire[1].val - last'.arg) % 65536 = 0
               /\ last'.ret = TRUE =>
                      holding'[last'.wire[1].addr] = last'.wire[1].val
        /\ (/\ last.op = "write_int" /\ last.ret = TRUE
            /\ last.arg \in -32768..32767
            /\ last'.op = "read_int" /\ last'.ret = TRUE
            /\ last'.name = last.name
            /\ Resolved("read_int", last.name) = Resolved("write_int", last.name)) =>
               last'.out = last.arg ]_vars

\* -10 was written (as 65526) and read back as -10.
C11_Witness ==
    /\ last.op = "read_int"
    /\ last.ret = TRUE
    /\ last.out = -10
    /\ last.wire[1].fn = "read_registers"
    /\ holding[last.wire[1].addr] = 65526


\* Rows of kind CoilStatus that exist for Mega only.
MegaOnlyCoils ==
    {i \in 1..g_num_registers :
        g_registers[i].type = REG_COIL_STATUS /\ ApplicableModels(i) = {MODEL_MEGA}}

\* C12: for a coil that exists for Mega only, a write bit on an open
\* Inverter session returns false with UnsupportedForModel and leaves the
\* controller's coils as they were; on an open Mega session it is not
\* refused (it can fail only on the transport) and when it returns true the
\* coil holds the written bit; a successful read bit of the same name made
\* next then stores that bit.
C12_MegaOnlyCoil ==
    [][ /\ (/\ last'.op = "write_bit"
            /\ g_ctx # NULL
            /\ Resolved("write_bit", last'.name) \in MegaOnlyCoils) =>
               LET row == Resolved("write_bit", last'.name)
               IN  /\ g_model = MODEL_INVERTER =>
                          /\ last'.ret = FALSE
                          /\ last'.err = "UnsupportedForModel"
                          /\ coils' = coils
                   /\ g_model = MODEL_MEGA =>
                          /\ last'.err \in {"", "WriteFailure"}
                          /\ last'.ret = TRUE =>
                                 coils'[g_registers[row].address] = last'.arg
        /\ (/\ last.op = "write_bit" /\ last.ret = TRUE
            /\ Resolved("write_bit", last.name) \in MegaOnlyCoils
            /\ Resolved("read_bit", last.name) = Resolved("write_bit", last.name)
            /\ last'.op = "read_bit" /\ last'.ret = TRUE
            /\ last'.name = last.name) =>
               last'.out = last.arg ]_vars

\* On a Mega session opened after an earlier session was closed, 1 was
\* written to the Mega-only coil and the coil holds it.
C12_Witness ==
    /\ last.op = "write_bit"
    /\ last.ret = TRUE
    /\ last.arg = 1
    /\ g_model = MODEL_MEGA
    /\ g_ctx = 2
    /\ mb[1].closes = 1
    /\ Resolved("write_bit", last.name) \in MegaOnlyCoils
    /\ coils[g_registers[Resolved("write_bit", last.name)].address] = 1

----------------------------------------------------------------------------
(* Properties of the catalog lookup *)

RegKinds == {REG_COIL_STATUS, REG_INPUT_STATUS, REG_INPUT, REG_HOLDING}

\* The kinds whose bit is set in a mask.
KindsIn(mask) == {k \in RegKinds : (mask \div k) % 2 = 1}

\* The first row in table order with the name and a kind among `kinds`,
\* 0 when there is none.
FirstRow(name, kinds) ==
    LET hits == {i \in 1..g_num_registers :
                    g_registers[i].name = name /\ g_registers[i].type \in kinds}
    IN  IF hits = {} THEN 0 ELSE CHOOSE i \in hits : \A j \in hits : i <= j

\* C15: in every state, whatever the session and the calls made before, for
\* every name and every kind mask find_register gives the first row in table
\* order whose name is the given name and whose kind is in the mask, and
\* not-found when there is none; an accessor reports "not found" exactly
\* when its mask has no such row.
C15_LookupFirstMatch ==
    /\ \A name \in Names : \A mask \in 0..15 :
           find_register(name, mask) = FirstRow(name, KindsIn(mask))
    /\ (last.op \in AccessorOps /\ last.err # "NotInitialized") =>
           (last.err = "RegisterNotFound" <=> FirstRow(last.name, KindsOf(last.op)) = 0)

\* On an open session a write int to the name that occurs twice went to its
\* second row, the first one being an InputRegister.
C15_Witness ==
    /\ last.op = "write_int"
    /\ last.ret = TRUE
    /\ g_ctx # NULL
    /\ Cardinality(RowsNamed(last.name)) = 2
    /\ last.wire[1].addr = g_registers[FirstRow(last.name, {REG_HOLDING})].address
    /\ FirstRow(last.name, RegKinds) # FirstRow(last.name, {REG_HOLDING})

----------------------------------------------------------------------------
(* Properties of the accessors' control flow *)

\* C17: an accessor reports the error of the first step that fails, in the
\* order session, lookup, model, wire: NotInitialized with no session, else
\* RegisterNotFound when the name does not resolve, else UnsupportedForModel
\* when the model is excluded, else ReadFailure / WriteFailure when the
\* request failed; it returns true exactly when it reports no error, stores
\* through the output pointer only when it returns true, and a read that
\* returns true has stored.
C17_FirstFailingStep ==
    [][ last'.op \in AccessorOps =>
            LET row == Resolved(last'.op, last'.name)
                failed == last'.wire # <<>> /\ last'.wire[1].rc = -1
            IN  /\ last'.err =
                       IF g_ctx = NULL THEN "NotInitialized"
                       ELSE IF row = 0 THEN "RegisterNotFound"
                       ELSE IF g_model \notin ApplicableModels(row)
                            THEN "UnsupportedForModel"
                       ELSE IF failed
                            THEN (IF last'.op \in {"read_bit", "read_int"}
                                  THEN "ReadFailure" ELSE "WriteFailure")
                       ELSE ""
                /\ last'.ret = (last'.err = "")
                /\ last'.written => last'.ret
                /\ (last'.ret /\ last'.op \in {"read_bit", "read_int"}) =>
                       last'.written ]_vars

\* With no session open, a name that is in no row was answered
\* NotInitialized, not RegisterNotFound.
C17_Witness ==
    /\ last.op \in AccessorOps
    /\ last.err = "NotInitialized"
    /\ RowsNamed(last.name) = {}
    /\ g_ctx = NULL
    /\ last.written = FALSE

\* C18: a successful open leaves g_model equal to its model argument, no
\* call changes g_model while the session stays open, and on an open session
\* an accessor whose name resolves answers UnsupportedForModel exactly when
\* that model is not among the register's applicable models.
C18_ModelOfOpenSession ==
    [][ /\ (last'.op = "open" /\ last'.ret = TRUE) => g_model' = last'.arg
        /\ (g_ctx # NULL /\ g_ctx' # NULL) => g_model' = g_model
        /\ (/\ last'.op \in AccessorOps
            /\ g_ctx # NULL
            /\ Resolved(last'.op, last'.name) # 0) =>
               (last'.err = "UnsupportedForModel" <=>
                    g_model \notin ApplicableModels(Resolved(last'.op, last'.name))) ]_vars

\* An Inverter session, opened after an open that failed at connect, has
\* just turned away an open for Mega.
C18_Witness ==
    /\ last.op = "open"
    /\ last.err = "AlreadyOpen"
    /\ last.arg = MODEL_MEGA
    /\ g_model = MODEL_INVERTER
    /\ g_ctx = 2
    /\ mb[1].state = "freed"
    /\ mb[1].closes = 0

----------------------------------------------------------------------------
(* Properties of the command-line harness *)

\* The model each recognised token stands for.
TokenModel(tok) ==
    IF tok = "mega" THEN MODEL_MEGA
    ELSE IF tok = "inverter" THEN MODEL_INVERTER
    ELSE 0

\* C14: only "mega" and "inverter" select a model, Mega and Inverter.  With
\* any other model token the harness ends with a failure status at startup:
\* thermia_modbus_open is never called, so no transport is ever created, no
\* session exists and no accessor runs; and whenever the library has been
\* called the token was a recognised one and the session was opened for the
\* model it stands for.
C14_ModelTokens ==
    Len(argv) >= 5 =>
        /\ TokenModel(argv[3]) = 0 =>
              /\ last = NoCall
              /\ g_ctx = NULL
              /\ \A h \in Transports : mb[h] = NoTransport
              /\ stdout = <<>>
              /\ pc \in {"start", "exit"}
              /\ pc = "exit" => status # 0 /\ stderr = "model unknown"
        /\ last.op = "open" =>
              TokenModel(argv[3]) # 0 /\ last.arg = TokenModel(argv[3])
        /\ g_ctx # NULL => g_model = TokenModel(argv[3])

C14_Witness ==
    /\ Len(argv) >= 5
    /\ argv[3] = "Mega"
    /\ argv[4] = "read"
    /\ pc = "exit"
    /\ status = EXIT_FAILURE
    /\ last = NoCall

\* The positions in argv (argv[k] being C's argv[k - 1]) of the listed names
\* that no catalog row of any kind carries.
UnresolvedNames ==
    {k \in 5..Len(argv) : FirstRow(argv[k], RegKinds) = 0}

FirstUnresolved == CHOOSE k \in UnresolvedNames : \A j \in UnresolvedNames : k <= j

\* C13: when the harness has exited after a well-formed start (enough
\* arguments, a recognised model), its status is non-zero if the open failed,
\* if the operation was read and some listed name resolves to no register
\* (the names before it having been read in order, and none after it), and
\* if the operation was write and the name resolves to no writable register.
C13_FailureExitStatus ==
    (pc = "exit" /\ Len(argv) >= 5 /\ TokenModel(argv[3]) # 0) =>
        /\ last.op \in {"open", "close"}
        /\ last.op = "open" => ~last.ret /\ status # 0
        /\ (last.op = "close" /\ argv[4] = "read" /\ UnresolvedNames # {}) =>
              /\ status # 0
              /\ argi + 1 = FirstUnresolved
              /\ Len(stdout) <= FirstUnresolved - 5
              /\ \A n \in 1..Len(stdout) :
                    \E k \in 5..(FirstUnresolved - 1) : stdout[n].name = argv[k]
        /\ (/\ last.op = "close" /\ argv[4] = "write" /\ Len(argv) >= 6
            /\ FirstRow(argv[5], {REG_COIL_STATUS, REG_HOLDING}) = 0) =>
              status # 0 /\ stdout = <<>>

\* A read of two names of which the first was read and printed and the
\* second is in no catalog row.
C13_Witness ==
    /\ pc = "exit"
    /\ Len(argv) = 6
    /\ argv[4] = "read"
    /\ argv[6] = "noSuchRegister"
    /\ Len(stdout) = 1
    /\ stdout[1].name = argv[5]
    /\ stderr = "register: not found"
    /\ status = EXIT_FAILURE

\* C19: from a successful thermia_modbus_open until the last step of main the
\* session is open on a connected transport, and when the harness has exited
\* no session is open and no transport is left connected: every transport
\* that was connected has been closed and freed once, whichever way main
\* went (operation done, register not found, missing value, unknown
\* operation, failed reads or writes).
C19_CloseBeforeExit ==
    /\ pc \in {"dispatch", "read", "write", "close", "failure"} =>
          /\ g_ctx # NULL
          /\ mb[g_ctx].state = "connected"
    /\ pc = "exit" =>
          /\ g_ctx = NULL
          /\ \A h \in Transports : mb[h].state # "connected"
          /\ last.op \in {"none", "open"} =>
                \A h \in Transports : mb[h].closes = 0
          /\ last.op \notin {"none", "open"} =>
                /\ last.op = "close"
                /\ \E h \in Transports :
                      /\ mb[h].state = "freed"
                      /\ mb[h].closes = 1
                      /\ mb[h].frees = 1

\* The harness opened the session, met an unknown operation and exited.
C19_Witness ==
    /\ pc = "exit"
    /\ Len(argv) >= 5
    /\ argv[4] = "dump"
    /\ stderr = "operation unknown"
    /\ status = EXIT_FAILURE
    /\ g_ctx = NULL
    /\ mb[1].state = "freed"
    /\ mb[1].closes = 1

\* The scale of the row main finds for a name (all four kinds).
ScaleOf(name) == g_registers[FirstRow(name, RegKinds)].scale

\* C16: whatever the scale of the register (1, 10 and 100 occur), a
\* successful read int hands out the 16-bit word the device answered, read as
\* a signed number, and a write int sends the caller's number reduced to 16
\* bits: the scale changes neither.  The line main prints for a successful
\* read int carries the raw value, and carries the value divided by the scale
\* as well exactly when the scale is above 1.
C16_ScaleOnlyInPresentation ==
    /\ (last.op = "read_int" /\ last.ret = TRUE) =>
          /\ last.out \in -32768..32767
          /\ (last.out - last.wire[1].val) % 65536 = 0
          /\ stdout # <<>>
          /\ LET line == stdout[Len(stdout)]
             IN  /\ line.name = last.name
                 /\ line.op = "read"
                 /\ line.value = last.out
                 /\ line.scaled <=> ScaleOf(last.name) > 1
                 /\ line.scaled => line.shown * ScaleOf(last.name) = 100 * last.out
    /\ (last.op = "write_int" /\ last.wire # <<>>) =>
          /\ last.wire[1].val \in 0..65535
          /\ (last.wire[1].val - last.arg) % 65536 = 0
          /\ last.ret = TRUE => holding[last.wire[1].addr] = last.wire[1].val

\* valueHeatpumpBrineInTemperature (scale 10) was read as -10 from the word
\* 65526 and printed as -1.00 with raw = -10.
C16_Witness ==
    /\ last.op = "read_int"
    /\ last.ret = TRUE
    /\ last.name = "valueHeatpumpBrineInTemperature"
    /\ last.wire[1].val = 65526
    /\ last.out = -10
    /\ stdout # <<>>
    /\ stdout[Len(stdout)].scaled
    /\ stdout[Len(stdout)].shown = -100
    /\ stdout[Len(stdout)].value = -10

----------------------------------------------------------------------------
(* Properties of the discovery daemon *)

\* C20: between two iterations of the daemon's main loop (at its top and in
\* the sleep that ends it) an address is recorded exactly when a publisher
\* pid is recorded; at every moment, inside an iteration too, at most one
\* publisher process is running, and start_avahi_publish launches the new
\* publisher only when no earlier one is left running.
C20_OneRecordedPublisher ==
    /\ dpc \in {"top", "sleep"} => (CURRENT_IP # "" <=> AVAHI_PID # 0)
    /\ Cardinality(alive) <= 1
    /\ dpc = "start_launch" => alive = {}

\* The first publisher was stopped by a failed probe and a second one now
\* publishes the address the device moved to.
C20_Witness ==
    /\ dpc = "sleep"
    /\ spawned = 2
    /\ alive = {2}
    /\ AVAHI_PID = 2
    /\ CURRENT_IP = "192.168.0.107"
    /\ device_ip = "192.168.0.107"
    /\ last_probe >= BootTime + PROBE_INTERVAL

OutOfPublishers == dpc = "start_launch" /\ spawned = MaxPublishers

\* An address is held, the device is away, and the time looked at reaches
\* beyond the next probe.
HeldWhileAway ==
    /\ dpc \notin {"none", "exited"}
    /\ CURRENT_IP # ""
    /\ device_ip = ""
    /\ clock + PROBE_INTERVAL + LOOP_SLEEP <= MaxClock

\* C22: a probe is made when an address is held and PROBE_INTERVAL seconds
\* have passed since the last one; when it finds that the device does not
\* answer at the held address, the same step of the iteration leaves no
\* publisher running, no pid and no address recorded.  With no address
\* recorded no publisher runs, and an address is recorded again only by a
\* scan that found the device.  Hence an address held while the device is
\* away leads to nothing being published, unless the device comes back, the
\* daemon is terminated or it runs out of publisher processes.
C22_FailedProbeStopsPublishing ==
    /\ [][ /\ (/\ dpc = "probe" /\ dpc' = "scan"
               /\ CURRENT_IP # "" /\ now - last_probe >= PROBE_INTERVAL
               /\ device_ip # CURRENT_IP) =>
                  /\ CURRENT_IP' = ""
                  /\ AVAHI_PID' = 0
                  /\ alive' = {}
                  /\ last_probe' = now
           /\ (dpc = "probe" /\ last_probe' # last_probe) =>
                  CURRENT_IP # "" /\ now - last_probe >= PROBE_INTERVAL
           /\ (CURRENT_IP = "" /\ CURRENT_IP' # "") =>
                  /\ dpc = "scan"
                  /\ device_ip # ""
                  /\ CURRENT_IP' = device_ip ]_vars
    /\ [](CURRENT_IP = "" => alive = {})
    /\ (HeldWhileAway ~>
            \/ CURRENT_IP = "" /\ AVAHI_PID = 0 /\ alive = {}
            \/ device_ip # ""
            \/ dpc = "exited"
            \/ OutOfPublishers)

\* The device went away while its address was published; the probe that was
\* due found it gone and stopped the publisher.
C22_Witness ==
    /\ dpc = "scan"
    /\ device_ip = ""
    /\ CURRENT_IP = ""
    /\ AVAHI_PID = 0
    /\ alive = {}
    /\ spawned = 1
    /\ last_probe = now
    /\ now >= BootTime + PROBE_INTERVAL

====
